---- MODULE Spec2Model ----
(***************************************************************************)
(* Model of src/src/check-quota.ts: main() and its helpers                 *)
(* getListeningPorts, testPort, fetchUserStatus and printQuotaSummary.     *)
(*                                                                         *)
(* main is an async function; every `await` is a suspension point, so one  *)
(* action of the model is one continuation of the program: the code that   *)
(* runs from the completion of an external operation (a child process, an  *)
(* HTTPS event, the join of a Promise.all) to the next suspension.         *)
(***************************************************************************)
EXTENDS Integers, Sequences, FiniteSets, TLC

(* ------------------------------ bounds --------------------------------- *)
\* lines of the process listing that match the executable name
MaxPsLines == 2
\* lines one socket tool prints for one pid
MaxOutLines == 2
\* lexical items of a command line given to the credential pattern alone
MaxCmdLen == 4

(* --------------------------- input universes --------------------------- *)
Platforms == {"darwin", "win32", "linux"}

\* The matching processes the operating system can list, each with its own
\* command line (a sequence of lexical items: a word, a separator or one
\* character of the value that follows the flag).  A pid has one command line.
PsLine ==
  { [pid |-> 7,  cmd |-> <<"server", " ", "--csrf_token", " ", "a", "b", "-", "1">>],
    [pid |-> 40, cmd |-> <<"server", " ", "--csrf_token", "=", "c", "d">>],
    [pid |-> 23, cmd |-> <<"server", " ", "--port", "=", "1">>] }

SeqUpTo(S, n) == UNION { [1..k -> S] : k \in 0..n }

\* The lexical items of the command lines given to the credential pattern
\* alone: a word, the separators, the flag, and characters of a value
CmdItems == {"server", " ", "=", "--csrf_token", "a", "F", "-", "z"}

\* The internet sockets of those processes, as the lines a tool prints for
\* them: owner pid, local address, local port, state.  Process 7 listens on two
\* ports; process 40 holds a client connection and listens on a LAN address.
SocketLines ==
  { [owner |-> 7,  addr |-> "127.0.0.1",   port |-> 4050,  state |-> "LISTEN"],
    [owner |-> 7,  addr |-> "0.0.0.0",     port |-> 9090,  state |-> "LISTEN"],
    [owner |-> 40, addr |-> "127.0.0.1",   port |-> 51000, state |-> "ESTABLISHED"],
    [owner |-> 40, addr |-> "192.168.1.5", port |-> 8080,  state |-> "LISTEN"] }

(* ------------------------- sequence helpers ---------------------------- *)
\* a plausible slip: only the first candidate's result is used
FirstResult(ss) == IF ss = <<>> THEN <<>> ELSE Head(ss)

RECURSIVE Flat(_)
\* Array.prototype.flat (one level)
Flat(ss) == IF ss = <<>> THEN <<>> ELSE Head(ss) \o Flat(Tail(ss))

Includes(s, x) == \E i \in 1..Len(s) : s[i] = x

\* the elements of s at the indexes in keep, in order
Pick(s, keep) ==
  [n \in 1..Cardinality(keep) |->
     s[CHOOSE i \in keep : Cardinality({j \in keep : j < i}) = n - 1]]

\* Array.from(new Set(s)); also the loop `if (!a.includes(x)) a.push(x)`:
\* first occurrences, in order
UniqueValues(s) ==
  Pick(s, {i \in 1..Len(s) : \A j \in 1..(i - 1) : s[j] # s[i]})

(* --------------------------- Process Locator --------------------------- *)
\* psCommand, lines 24-29: off win32 the listing is `ps | grep name | grep -v grep`,
\* whose exit status is that of the last grep: 1 when no line is selected, and
\* execAsync rejects on a non-zero exit status. wmic exits 0 with no instance.
psCommandExitsNonZeroWhenEmpty(plat) == plat # "win32"

\* /--csrf_token[=\s]+([a-f0-9\-]+)/i : the flag (case-insensitive)
IsFlag(w) == w \in {"--csrf_token", "--CSRF_TOKEN", "--Csrf_Token"}
\* [=\s]
IsSep(w) == w \in {"=", " "}
\* a plausible slip: the hyphen is left out of the character class
HexDigitsOnly(w) ==
  w \in {"a", "b", "c", "d", "e", "f", "A", "B", "C", "D", "E", "F",
         "0", "1", "2", "3", "4", "5", "6", "7", "8", "9"}

\* [a-f0-9\-] under the i flag
IsTokenChar(w) ==
  w \in {"a", "b", "c", "d", "e", "f", "A", "B", "C", "D", "E", "F",
         "0", "1", "2", "3", "4", "5", "6", "7", "8", "9", "-"}

\* [=\s]+ from index j: the end (exclusive) of the maximal run of separators
SepRunEnd(cmd, j) ==
  CHOOSE e \in j..(Len(cmd) + 1) :
     /\ \A x \in j..(e - 1) : IsSep(cmd[x])
     /\ (e <= Len(cmd) => ~IsSep(cmd[e]))

\* [a-f0-9\-]+ from index j: the end (exclusive) of the maximal run of token characters
TokenRunEnd(cmd, j) ==
  CHOOSE e \in j..(Len(cmd) + 1) :
     /\ \A x \in j..(e - 1) : IsTokenChar(cmd[x])
     /\ (e <= Len(cmd) => ~IsTokenChar(cmd[e]))

\* the characters of [a-f0-9\-] (under i) that a longer item starts with
HexPrefix(w) ==
  CASE w = "--csrf_token" -> <<"-", "-", "c">>
    [] w \in {"--CSRF_TOKEN", "--Csrf_Token"} -> <<"-", "-", "C">>
    [] w = "--port" -> <<"-", "-">>
    [] OTHER -> <<>>

\* the capture group of a match that starts at index i, <<>> when none starts there
MatchAt(cmd, i) ==
  IF i > Len(cmd) \/ ~IsFlag(cmd[i]) THEN <<>>
  ELSE LET v == SepRunEnd(cmd, i + 1)
           e == TokenRunEnd(cmd, v)
           more == IF e <= Len(cmd) THEN HexPrefix(cmd[e]) ELSE <<>>
       IN IF v = i + 1 THEN <<>> ELSE SubSeq(cmd, v, e - 1) \o more

\* line.match(...)[1] of the leftmost match; <<>> stands for a null match
tokenMatch(cmd) ==
  LET hit(i) == MatchAt(cmd, i) # <<>>
  IN IF \E i \in 1..Len(cmd) : hit(i)
     THEN MatchAt(cmd, CHOOSE i \in 1..Len(cmd) : hit(i) /\ \A j \in 1..(i - 1) : ~hit(j))
     ELSE <<>>

RECURSIVE ExtractCandidates(_)
\* lines 38-77: one candidate per listing line with a pid and a token match
ExtractCandidates(lines) ==
  IF lines = <<>> THEN <<>>
  ELSE LET l == Head(lines)
           t == tokenMatch(l.cmd)
           rest == ExtractCandidates(Tail(lines))
       IN IF t # <<>> THEN <<[pid |-> l.pid, csrfToken |-> t]>> \o rest ELSE rest

\* a plausible slip: the candidates are used as they are
KeepAll(cands) == cands

\* line 84: Array.from(new Map(candidates.map(c => [c.pid, c])).values()):
\* keys in order of first insertion, each with the last value set for it
UniqueByPid(cands) ==
  LET pids == UniqueValues([i \in 1..Len(cands) |-> cands[i].pid])
      last(p) == CHOOSE i \in 1..Len(cands) :
                    /\ cands[i].pid = p
                    /\ \A j \in (i + 1)..Len(cands) : cands[j].pid # p
  IN [k \in 1..Len(pids) |-> cands[last(pids[k])]]

(* --------------------------- Port Discoverer --------------------------- *)
\* commands, lines 153-163: the tool names in priority order
commands(plat) ==
  IF plat = "darwin" THEN <<"lsof">>
  ELSE IF plat = "win32" THEN <<"netstat">>
  ELSE <<"ss", "netstat", "lsof">>

\* the decimal digits of p occur contiguously in those of n (p > 0)
RECURSIVE Pow10(_)
Pow10(k) == IF k = 0 THEN 1 ELSE 10 * Pow10(k - 1)

NumDigits(p) == CHOOSE d \in 1..6 : Pow10(d - 1) <= p /\ p < Pow10(d)

DigitsContain(n, p) ==
  \E k \in 0..5 : (n \div Pow10(k)) % Pow10(NumDigits(p)) = p

\* the numbers written in an address
AddrNumbers(addr) ==
  IF addr = "127.0.0.1" THEN {127, 0, 1}
  ELSE IF addr = "0.0.0.0" THEN {0}
  ELSE IF addr = "[::1]" THEN {1}
  ELSE IF addr = "192.168.1.5" THEN {192, 168, 1, 5}
  ELSE {}

\* grep <pid> / findstr <pid>: the text of the line contains the digits of pid
LineMentions(line, pid) ==
  \E n \in {line.owner, line.port} \cup AddrNumbers(line.addr) : DigitsContain(n, pid)

\* lines 155-162: the lines the command of a tool can print for pid
\*   lsof -Pan -p pid -i                      every internet socket of pid
\*   netstat -ano | findstr LISTENING | findstr pid     (win32)
\*   ss -tlnp | grep "pid=<pid>,"             listening sockets owned by pid
\*   netstat -tulpn | grep pid                listening sockets mentioning pid
CommandPrints(plat, name, pid, line) ==
  IF name = "lsof" THEN line.owner = pid
  ELSE IF name = "ss" THEN line.state = "LISTEN" /\ line.owner = pid
  ELSE line.state = "LISTEN" /\ LineMentions(line, pid)

\* what execAsync(cmd) can deliver: a rejection, or a stdout of a few lines
ToolOutcomes(plat, name, pid) ==
  { [threw |-> TRUE, stdout |-> <<>>] }
  \cup { [threw |-> FALSE, stdout |-> s] :
           s \in SeqUpTo({l \in SocketLines : CommandPrints(plat, name, pid, l)}, MaxOutLines) }

\* a plausible slip: the loop stops at the first tool that did not throw
BreaksOnAnyStdout(stdout) == TRUE

\* line 168: if (stdout.trim())
StdoutNonEmpty(stdout) == stdout # <<>>

\* line 181: /(?:127\.0\.0\.1|localhost|0\.0\.0\.0|\[::1\]|\*):(\d+)/
AddrMatches(addr) == addr \in {"127.0.0.1", "localhost", "0.0.0.0", "[::1]", "*"}

\* lines 177-188: the port of every matching line, without repetition
ParsePorts(lines) ==
  LET hits == Pick(lines, {n \in 1..Len(lines) : AddrMatches(lines[n].addr)})
  IN UniqueValues([n \in 1..Len(hits) |-> hits[n].port])

\* lines 151-152 and 165-167: the call starts and invokes the first command
StartDiscovery(plat) ==
  [invoked |-> <<commands(plat)[1]>>, outcomes |-> <<>>, portStdout |-> <<>>,
   done |-> FALSE, ports |-> <<>>]

\* a plausible slip: a command that threw is run a second time
RetriesCommand(plat, d, out) ==
  IF out.threw /\ Len(d.invoked) < 2
  THEN [d EXCEPT !.outcomes = Append(@, "threw"),
                 !.invoked = Append(@, d.invoked[Len(d.invoked)])]
  ELSE [d EXCEPT !.outcomes = Append(@, "output"), !.portStdout = out.stdout,
                 !.done = TRUE, !.ports = ParsePorts(out.stdout)]

\* lines 165-188: the continuation of getListeningPorts when a command returns
AfterTool(plat, d, out) ==
  LET kind == IF out.threw THEN "threw"
              ELSE IF out.stdout = <<>> THEN "empty" ELSE "output"
      seen == [d EXCEPT !.outcomes = Append(@, kind)]
  IN IF ~out.threw /\ StdoutNonEmpty(out.stdout)
     THEN [seen EXCEPT !.portStdout = out.stdout, !.done = TRUE,
                       !.ports = ParsePorts(out.stdout)]
     ELSE IF Len(d.invoked) < Len(commands(plat))
     THEN [seen EXCEPT !.invoked = Append(@, commands(plat)[Len(d.invoked) + 1])]
     ELSE [seen EXCEPT !.done = TRUE, !.ports = ParsePorts(<<>>)]

(* ----------------------------- Port Prober ----------------------------- *)
\* a plausible slip: a later event overwrites the verdict
ResolveOverwrites(pr, value) == [pr EXCEPT !.settled = TRUE, !.verdict = value]

\* resolve(value) of the promise of testPort: only the first call settles it
Resolve(pr, value) ==
  IF pr.settled THEN pr ELSE [pr EXCEPT !.settled = TRUE, !.verdict = value]

\* lines 195-218: the request is written and ended; nothing has answered yet
StartProbe(port, token) ==
  [port |-> port, token |-> token, req |-> "open", settled |-> FALSE,
   verdict |-> FALSE, first |-> "none", requests |-> 1]

Note(pr, ev) == IF pr.first = "none" THEN [pr EXCEPT !.first = ev] ELSE pr

\* lines 211-214: the response callback
OnResponse(pr, status) ==
  [Resolve(Note(pr, IF status = 200 THEN "status200" ELSE "statusOther"), status = 200)
     EXCEPT !.req = "responded"]

\* line 215
OnError(pr) == [Resolve(Note(pr, "error"), FALSE) EXCEPT !.req = "closed"]

\* line 216: req.destroy(); resolve(false)
OnTimeout(pr) == [Resolve(Note(pr, "timeout"), FALSE) EXCEPT !.req = "closed"]

(* -------------------------- Endpoint Resolver -------------------------- *)
\* a plausible slip: a result counts only when every probe succeeded
AllValid(results) == IF \A i \in 1..Len(results) : results[i] # <<>> THEN 1 ELSE 0

\* a plausible slip: the first result is taken without the null check
TakesFirstResult(results) == 1

\* a plausible slip: only the first result is looked at
FirstResultOnly(results) == IF results # <<>> /\ results[1] # <<>> THEN 1 ELSE 0

\* a plausible slip: the last non-null result is taken
LastValid(results) ==
  IF \E i \in 1..Len(results) : results[i] # <<>>
  THEN CHOOSE i \in 1..Len(results) :
         results[i] # <<>> /\ \A j \in (i + 1)..Len(results) : results[j] = <<>>
  ELSE 0

\* line 129: results.find(r => r !== null), as an index; <<>> stands for null
FindValid(results) ==
  IF \E i \in 1..Len(results) : results[i] # <<>>
  THEN CHOOSE i \in 1..Len(results) :
         results[i] # <<>> /\ \A j \in 1..(i - 1) : results[j] = <<>>
  ELSE 0

\* a plausible slip: the last entry with the port is taken
LastMatching(all, p) ==
  all[CHOOSE i \in 1..Len(all) :
        all[i].port = p /\ \A j \in (i + 1)..Len(all) : all[j].port # p]

\* line 118: allPorts.find(wp => wp.port === p)
matchingCandidate(all, p) ==
  all[CHOOSE i \in 1..Len(all) : all[i].port = p /\ \A j \in 1..(i - 1) : all[j].port # p]

\* a plausible slip: the pair is returned whatever the probe said
ResultUnchecked(pr) == <<[port |-> pr.port, token |-> pr.token]>>

\* lines 121-125: the value of one testPromise once its probe has settled
TestResult(pr) == IF pr.verdict THEN <<[port |-> pr.port, token |-> pr.token]>> ELSE <<>>

(* ------------------------------- state --------------------------------- *)
VARIABLES
  platform,          \* process.platform
  psLines,           \* environment: how many processes match the executable name
  psResult,          \* the listing command: "pending", "rejected" or "ok"
  candidates,        \* main: candidates, as extracted
  uniqueCandidates,  \* main: uniqueCandidates
  disc,              \* the running getListeningPorts calls, one per unique candidate
  pidPortResults,    \* main: pidPortResults
  allPorts,          \* main: allPorts
  uniquePorts,       \* main: uniquePorts
  probes,            \* the testPort calls, one per unique port
  settleOrder,       \* history: indexes of the probes in the order they settled
  endpoint,          \* main: <<>> or <<[port |-> workingPort, token |-> validToken]>>
  server,            \* environment: does the endpoint answer the quota request
  fetchState,        \* fetchUserStatus: "none", "pending", "resolved", "rejected"
  pc,                \* where main is
  failure,           \* the kind of error main's catch reported, "none" before
  exitCode,          \* the argument of process.exit, -1 while it was not called
  cmdLine            \* the Locator on one line: the command line, <<>> in a run of main

vars == <<platform, psLines, psResult, candidates, uniqueCandidates, disc,
          pidPortResults, allPorts, uniquePorts, probes, settleOrder, endpoint,
          server, fetchState, pc, failure, exitCode, cmdLine>>

locatorVars == <<candidates, uniqueCandidates>>
discVars == <<disc, pidPortResults, allPorts>>
probeVars == <<uniquePorts, probes, settleOrder>>
fetchVars == <<endpoint, server, fetchState>>

Init ==
  /\ platform \in Platforms
  /\ psLines = 0
  /\ psResult = "pending"
  /\ candidates = <<>>
  /\ uniqueCandidates = <<>>
  /\ disc = <<>>
  /\ pidPortResults = <<>>
  /\ allPorts = <<>>
  /\ uniquePorts = <<>>
  /\ probes = <<>>
  /\ settleOrder = <<>>
  /\ endpoint = <<>>
  /\ server = "none"
  /\ fetchState = "none"
  /\ pc = "start"
  /\ failure = "none"
  /\ exitCode = -1
  /\ cmdLine = <<>>

\* a plausible slip: the catch reports the error and does not call process.exit
ReportsOnly(kind) ==
  /\ pc' = "failed"
  /\ failure' = kind
  /\ exitCode' = exitCode

\* lines 145-148: the catch of main reports the error and exits with status 1
Throw(kind) ==
  /\ pc' = "failed"
  /\ failure' = kind
  /\ exitCode' = 1

(* main, lines 13-85, up to the first suspension of the port scan.  The     *)
(* error kinds name the messages: line 34 ProcessNotFound, line 80          *)
(* NoCredentialFound, a rejected execAsync "Command failed: ..."            *)
ListProcesses ==
  /\ pc = "start"
  /\ \E lines \in SeqUpTo(PsLine, MaxPsLines), rejects \in BOOLEAN :
       /\ (lines = <<>> /\ psCommandExitsNonZeroWhenEmpty(platform)) => rejects
       /\ psLines' = Len(lines)
       /\ IF rejects
          THEN /\ psResult' = "rejected"
               /\ Throw("CommandFailed")
               /\ UNCHANGED <<locatorVars, disc>>
          ELSE /\ psResult' = "ok"
               /\ IF lines = <<>>
                  THEN /\ Throw("ProcessNotFound")
                       /\ UNCHANGED <<locatorVars, disc>>
                  ELSE LET cands == ExtractCandidates(lines)
                           uniq == UniqueByPid(cands)
                       IN IF cands = <<>>
                          THEN /\ Throw("NoCredentialFound")
                               /\ UNCHANGED <<locatorVars, disc>>
                          ELSE /\ candidates' = cands
                               /\ uniqueCandidates' = uniq
                               /\ disc' = [i \in 1..Len(uniq) |-> StartDiscovery(platform)]
                               /\ pc' = "discovering"
                               /\ UNCHANGED <<failure, exitCode>>
  /\ UNCHANGED <<cmdLine, platform, pidPortResults, allPorts, probeVars, fetchVars>>

\* getListeningPorts, lines 165-188: the command in flight for candidate i returns
ToolReturns(i) ==
  /\ pc = "discovering"
  /\ i \in 1..Len(disc)
  /\ ~disc[i].done
  /\ \E out \in ToolOutcomes(platform, disc[i].invoked[Len(disc[i].invoked)],
                             uniqueCandidates[i].pid) :
       disc' = [disc EXCEPT ![i] = AfterTool(platform, disc[i], out)]
  /\ UNCHANGED <<cmdLine, platform, psLines, psResult, locatorVars, pidPortResults, allPorts,
                 probeVars, fetchVars, pc, failure, exitCode>>

\* line 95: ports.map(port => ({ port, token: cand.csrfToken, pid: cand.pid }))
PortCandidates(cand, ports) ==
  [k \in 1..Len(ports) |-> [port |-> ports[k], token |-> cand.csrfToken, pid |-> cand.pid]]

\* main, lines 91-126: Promise.all of the port scans resolves; the probes start
DiscoveryJoin ==
  /\ pc = "discovering"
  /\ \A i \in 1..Len(disc) : disc[i].done
  /\ pidPortResults' =
       [i \in 1..Len(disc) |-> PortCandidates(uniqueCandidates[i], disc[i].ports)]
  /\ allPorts' = Flat(pidPortResults')
  /\ disc' = <<>>
  /\ IF allPorts' = <<>>
     THEN /\ Throw("NoListeningPort")
          /\ UNCHANGED <<uniquePorts, probes>>
     ELSE /\ uniquePorts' = UniqueValues([k \in 1..Len(allPorts') |-> allPorts'[k].port])
          /\ probes' = [k \in 1..Len(uniquePorts') |->
                          StartProbe(uniquePorts'[k],
                                     matchingCandidate(allPorts', uniquePorts'[k]).token)]
          /\ pc' = "probing"
          /\ UNCHANGED <<failure, exitCode>>
  /\ UNCHANGED <<cmdLine, platform, psLines, psResult, locatorVars, settleOrder, fetchVars>>

\* the probes that settle in a step are appended to the history
Settled(old, new, order) ==
  IF \E k \in 1..Len(old) : ~old[k].settled /\ new[k].settled
  THEN Append(order, CHOOSE k \in 1..Len(old) : ~old[k].settled /\ new[k].settled)
  ELSE order

\* an event of probe k is handled; after process.exit (line 147) none is
ProbeStep(k, after) ==
  /\ pc # "failed"
  /\ probes' = [probes EXCEPT ![k] = after]
  /\ settleOrder' = Settled(probes, probes', settleOrder)
  /\ UNCHANGED <<cmdLine, platform, psLines, psResult, locatorVars, discVars, uniquePorts,
                 fetchVars, pc, failure, exitCode>>

\* testPort, lines 211-214: the response to probe k arrives
ProbeResponse(k) ==
  /\ k \in 1..Len(probes)
  /\ probes[k].req = "open"
  /\ \E status \in {200, 403} : ProbeStep(k, OnResponse(probes[k], status))

\* testPort, line 215: the request of probe k fails
ProbeError(k) ==
  /\ k \in 1..Len(probes)
  /\ probes[k].req \in {"open", "responded"}
  /\ ProbeStep(k, OnError(probes[k]))

\* testPort, line 216: the socket of probe k stays idle for the timeout
ProbeTimeout(k) ==
  /\ k \in 1..Len(probes)
  /\ probes[k].req \in {"open", "responded"}
  /\ ProbeStep(k, OnTimeout(probes[k]))

\* a plausible slip: main goes on as soon as one probe has succeeded
ResolvesOnFirstSuccess ==
  /\ pc = "probing"
  /\ \/ \E k \in 1..Len(probes) : probes[k].settled /\ probes[k].verdict
     \/ \A k \in 1..Len(probes) : probes[k].settled
  /\ IF \A k \in 1..Len(probes) : ~probes[k].verdict
     THEN /\ Throw("NoRespondingEndpoint")
          /\ UNCHANGED fetchVars
     ELSE /\ \E k \in 1..Len(probes) :
               /\ probes[k].settled /\ probes[k].verdict
               /\ endpoint' = <<[port |-> probes[k].port, token |-> probes[k].token]>>
          /\ fetchState' = "pending"
          /\ server' \in {"responds", "silent"}
          /\ pc' = "fetching"
          /\ UNCHANGED <<failure, exitCode>>
  /\ UNCHANGED <<cmdLine, platform, psLines, psResult, locatorVars, discVars, probeVars>>

\* main, lines 128-140: Promise.all of the probes resolves; the fetch is issued
ProbeJoin ==
  /\ pc = "probing"
  /\ \A k \in 1..Len(probes) : probes[k].settled
  /\ LET results == [k \in 1..Len(probes) |-> TestResult(probes[k])]
         v == FindValid(results)
     IN IF v = 0
        THEN /\ Throw("NoRespondingEndpoint")
             /\ UNCHANGED fetchVars
        ELSE /\ endpoint' = results[v]
             /\ fetchState' = "pending"
             /\ server' \in {"responds", "silent"}
             /\ pc' = "fetching"
             /\ UNCHANGED <<failure, exitCode>>
  /\ UNCHANGED <<cmdLine, platform, psLines, psResult, locatorVars, discVars, probeVars>>

\* fetchUserStatus, lines 247-262, and main, lines 140-148: the response ends
\* or the request fails; printQuotaSummary reads data.userStatus.planStatus
FetchEvent ==
  /\ pc = "fetching"
  /\ server = "responds"
  /\ \E ev \in {"error", "status200", "statusOther"},
        body \in {"quota", "noUserStatus", "notJson"} :
       IF ev = "status200" /\ body = "quota"
       THEN /\ fetchState' = "resolved"
            /\ pc' = "done"
            /\ UNCHANGED <<failure, exitCode>>
       ELSE IF ev = "status200" /\ body = "noUserStatus"
       THEN /\ fetchState' = "resolved"
            /\ Throw("TypeError")
       ELSE /\ fetchState' = "rejected"
            /\ Throw(IF ev = "status200" THEN "MalformedResponse" ELSE "FetchFailed")
  /\ UNCHANGED <<cmdLine, platform, psLines, psResult, locatorVars, discVars, probeVars,
                 endpoint, server>>

Next ==
  \/ ListProcesses
  \/ \E i \in 1..MaxPsLines : ToolReturns(i)
  \/ DiscoveryJoin
  \/ \E k \in 1..Cardinality(SocketLines) : ProbeResponse(k)
  \/ \E k \in 1..Cardinality(SocketLines) : ProbeError(k)
  \/ \E k \in 1..Cardinality(SocketLines) : ProbeTimeout(k)
  \/ ProbeJoin
  \/ FetchEvent

Spec == Init /\ [][Next]_vars

(* The Locator on one listing line, lines 63-77: the command line is drawn  *)
(* from the bounded lines over CmdItems, and the line is parsed.            *)
LocatorInit ==
  /\ platform \in Platforms
  /\ psLines = 1
  /\ psResult = "pending"
  /\ candidates = <<>>
  /\ uniqueCandidates = <<>>
  /\ disc = <<>>
  /\ pidPortResults = <<>>
  /\ allPorts = <<>>
  /\ uniquePorts = <<>>
  /\ probes = <<>>
  /\ settleOrder = <<>>
  /\ endpoint = <<>>
  /\ server = "none"
  /\ fetchState = "none"
  /\ pc = "start"
  /\ failure = "none"
  /\ exitCode = -1
  /\ cmdLine \in SeqUpTo(CmdItems, MaxCmdLen) \ {<<>>}

\* lines 65-76 (and 45-57 on win32): the line of process pid is parsed
ParseLine(pid) ==
  /\ pc = "start"
  /\ psResult = "pending"
  /\ cmdLine # <<>>
  /\ psResult' = "ok"
  /\ candidates' = ExtractCandidates(<<[pid |-> pid, cmd |-> cmdLine]>>)
  /\ UNCHANGED <<cmdLine, platform, psLines, uniqueCandidates, discVars, probeVars,
                 fetchVars, pc, failure, exitCode>>

LocatorNext == \E pid \in {7, 40} : ParseLine(pid)

LocatorSpec == LocatorInit /\ [][LocatorNext]_vars

(* What the code's scheduling guarantees: Promise.all resolves once its     *)
(* members have, the idle timer of a probe (timeout: 1000, line 208) fires, *)
(* and an endpoint that answers the quota request is heard.  The child      *)
(* processes run without a timeout, so nothing is assumed of them.          *)
LiveSpec ==
  /\ Spec
  /\ WF_vars(DiscoveryJoin)
  /\ \A k \in 1..Cardinality(SocketLines) : WF_vars(ProbeTimeout(k))
  /\ WF_vars(ProbeJoin)
  /\ WF_vars(FetchEvent)

(* ------------------------------ properties ----------------------------- *)
Successes == {k \in 1..Len(probes) : probes[k].settled /\ probes[k].verdict}

\* the successful probe that settled before every other successful probe
FirstCompletedSuccess ==
  settleOrder[CHOOSE n \in 1..Len(settleOrder) :
                 /\ settleOrder[n] \in Successes
                 /\ \A m \in 1..(n - 1) : settleOrder[m] \notin Successes]

\* the successful probe that comes first in uniquePorts
FirstListedSuccess == CHOOSE k \in Successes : \A j \in Successes : k <= j

EndpointOf(k) == <<[port |-> uniquePorts[k], token |-> probes[k].token]>>

\* C1 (as claimed): when two or more probes succeed, the resolved endpoint is
\* the port whose probe completed first in time.
C1_FirstCompletedWins ==
  (endpoint # <<>> /\ Cardinality(Successes) >= 2)
     => endpoint = EndpointOf(FirstCompletedSuccess)

\* C1 (amended): when two or more probes succeed, the resolved endpoint is the
\* succeeding port that comes first in the list of unique discovered ports,
\* whatever the order in which the probes completed.
C1_FirstListedWins ==
  (endpoint # <<>> /\ Cardinality(Successes) >= 2)
     => endpoint = EndpointOf(FirstListedSuccess)

\* two probes succeeded, the one chosen was not the first to complete, and it
\* is not the port of least number
C1_Witness ==
  /\ endpoint # <<>>
  /\ Cardinality(Successes) >= 2
  /\ FirstCompletedSuccess # FirstListedSuccess
  /\ \E k \in Successes : uniquePorts[k] < endpoint[1].port

NoPortOrProbeOps ==
  /\ disc = <<>> /\ pidPortResults = <<>> /\ allPorts = <<>>
  /\ probes = <<>> /\ settleOrder = <<>>
  /\ fetchState = "none" /\ endpoint = <<>>

\* C2: a run in which no process matches ends Failed with ProcessNotFound and
\* invokes neither getListeningPorts nor testPort nor fetchUserStatus.
C2_NoProcessNoIO ==
  (pc = "failed" /\ psLines = 0) => (failure = "ProcessNotFound" /\ NoPortOrProbeOps)

\* C3: when the process-listing command itself fails, the run ends with the
\* ProcessNotFound kind, as it does on empty output.
C3_ListingFailureIsProcessNotFound ==
  psResult = "rejected" => (pc = "failed" /\ failure = "ProcessNotFound")

\* the kind of the first stage whose aggregate result is empty
ExpectedKind ==
  IF psResult = "rejected" \/ psLines = 0 THEN "ProcessNotFound"
  ELSE IF candidates = <<>> THEN "NoCredentialFound"
  ELSE IF allPorts = <<>> THEN "NoListeningPort"
  ELSE "NoRespondingEndpoint"

\* C4: a run that fails before an endpoint is resolved reports the kind of the
\* first stage whose aggregate result is empty, and runs no later stage.
C4_StageKinds ==
  (pc = "failed" /\ endpoint = <<>>) =>
     /\ failure = ExpectedKind
     /\ fetchState = "none"
     /\ (failure \in {"ProcessNotFound", "NoCredentialFound"} => NoPortOrProbeOps)
     /\ (failure = "NoListeningPort" => probes = <<>>)

ListeningPorts(lines) ==
  { lines[n].port : n \in { m \in 1..Len(lines) :
                              lines[m].state = "LISTEN" /\ AddrMatches(lines[m].addr) } }

Range(s) == { s[n] : n \in 1..Len(s) }

\* C5: getListeningPorts returns exactly the ports of the listening-state lines
\* of the tool output it parsed; a non-listening line contributes no port.
C5_OnlyListeningLines ==
  \A i \in 1..Len(disc) :
     disc[i].done => Range(disc[i].ports) = ListeningPorts(disc[i].portStdout)

Skipped(o) == o \in {"threw", "empty"}

\* C6: the tools are invoked one at a time in the platform's priority order; a
\* tool that throws or prints nothing is skipped; the ports are parsed from the
\* output of the first tool that printed something and no tool is invoked after
\* it; equal outputs give equal ports whichever tool printed them.
C6_ToolFallback ==
  /\ \A i \in 1..Len(disc) :
       LET d == disc[i]
           n == Len(d.invoked)
       IN /\ n >= 1 /\ n <= Len(commands(platform))
          /\ d.invoked = SubSeq(commands(platform), 1, n)
          /\ Len(d.outcomes) = (IF d.done THEN n ELSE n - 1)
          /\ \A j \in 1..(n - 1) : Skipped(d.outcomes[j])
          /\ ~d.done => (d.portStdout = <<>> /\ d.ports = <<>>)
          /\ d.done =>
               \/ /\ d.outcomes[n] = "output"
                  /\ d.portStdout # <<>>
                  /\ Range(d.ports) =
                       { d.portStdout[m].port :
                           m \in { x \in 1..Len(d.portStdout) : AddrMatches(d.portStdout[x].addr) } }
               \/ /\ Skipped(d.outcomes[n])
                  /\ n = Len(commands(platform))
                  /\ d.portStdout = <<>> /\ d.ports = <<>>
  /\ \A i, j \in 1..Len(disc) :
       (disc[i].done /\ disc[j].done /\ disc[i].portStdout = disc[j].portStdout)
          => disc[i].ports = disc[j].ports

\* the first-priority tool failed and the second supplied the ports
C6_Witness ==
  \E i \in 1..Len(disc) :
     /\ disc[i].done
     /\ disc[i].invoked = <<"ss", "netstat">>
     /\ disc[i].outcomes = <<"threw", "output">>
     /\ Len(disc[i].ports) = 2

Resolved == pc \in {"fetching", "done"} \/ (pc = "failed" /\ fetchState # "none")

\* C7: when exactly one probe returned 200, the run leaves the probing stage
\* Resolved with that port and the token it was probed with, never Failed
\* with NoRespondingEndpoint, whatever the completion and numeric order.
C7_SingleSuccessResolves ==
  \A k \in 1..Len(probes) :
     (pc # "probing" /\ Successes = {k})
        => (Resolved /\ endpoint = EndpointOf(k) /\ failure # "NoRespondingEndpoint")

\* three ports, only one answers 200: the last to complete, the last in the
\* list and not the port of greatest number
C7_Witness ==
  /\ Len(probes) = 3
  /\ Successes = {3}
  /\ Len(settleOrder) = 3
  /\ settleOrder[3] = 3
  /\ \E k \in 1..2 : uniquePorts[k] > uniquePorts[3]
  /\ endpoint = EndpointOf(3)

VerdictMatchesFirstEvent ==
  \A k \in 1..Len(probes) :
     /\ probes[k].requests = 1
     /\ probes[k].settled <=> probes[k].first # "none"
     /\ probes[k].settled => (probes[k].verdict <=> probes[k].first = "status200")

VerdictKept ==
  \A k \in 1..Len(probes) :
     probes[k].settled => (probes'[k].settled /\ probes'[k].verdict = probes[k].verdict)

\* C8: a probe issues one request and settles exactly once: true when the first
\* event is a 200 response, false when it is another status, an error or the
\* timeout; later events do not change the verdict; every probe settles and
\* the run leaves the probing stage.
C8_ProbeVerdict ==
  /\ []VerdictMatchesFirstEvent
  /\ [][VerdictKept]_vars
  /\ (pc = "probing") ~> (pc # "probing" /\ \A k \in 1..Len(probes) : probes[k].settled)

\* a probe answered 200, its socket then timed out, and its verdict is still
\* true; another probe got no response and was settled false by the timeout
C8_Witness ==
  /\ \E k \in 1..Len(probes) :
       probes[k].first = "status200" /\ probes[k].req = "closed" /\ probes[k].verdict
  /\ \E k \in 1..Len(probes) :
       probes[k].first = "timeout" /\ probes[k].settled /\ ~probes[k].verdict
  /\ pc # "probing"

\* C9: when the endpoint accepts the quota request and never answers, the run
\* eventually ends with FetchFailed.
C9_FetchEnds ==
  (pc = "fetching" /\ server = "silent") ~> (pc = "failed" /\ failure = "FetchFailed")

\* C10: the deduplicated candidates hold exactly one entry for each pid of the
\* extracted candidates.
C10_OnePerPid ==
  pc # "start" =>
     /\ \A a, b \in 1..Len(uniqueCandidates) :
          uniqueCandidates[a].pid = uniqueCandidates[b].pid => a = b
     /\ { uniqueCandidates[a].pid : a \in 1..Len(uniqueCandidates) }
          = { candidates[a].pid : a \in 1..Len(candidates) }
     /\ Range(uniqueCandidates) \subseteq Range(candidates)

\* the same pid on every line of a listing of MaxPsLines lines
C10_Witness ==
  /\ Len(candidates) = MaxPsLines
  /\ Len(uniqueCandidates) = 1

(* -------------------------------- C11 ---------------------------------- *)
\* a character of a token as the specification has it
IsLowerHexOrHyphen(w) ==
  w \in {"a", "b", "c", "d", "e", "f",
         "0", "1", "2", "3", "4", "5", "6", "7", "8", "9", "-"}

\* a hex digit of either case, or a hyphen
IsHexOrHyphen(w) == IsLowerHexOrHyphen(w) \/ w \in {"A", "B", "C", "D", "E", "F"}

\* the end (exclusive) of the word that starts at index j: up to the next separator
WordEnd(cmd, j) ==
  CHOOSE e \in j..(Len(cmd) + 1) :
     /\ \A x \in j..(e - 1) : ~IsSep(cmd[x])
     /\ (e <= Len(cmd) => IsSep(cmd[e]))

\* the flag at index i is followed by separators and then by a value
HasValue(cmd, i) ==
  /\ IsFlag(cmd[i])
  /\ SepRunEnd(cmd, i + 1) > i + 1
  /\ WordEnd(cmd, SepRunEnd(cmd, i + 1)) > SepRunEnd(cmd, i + 1)

ValueOf(cmd, i) ==
  SubSeq(cmd, SepRunEnd(cmd, i + 1), WordEnd(cmd, SepRunEnd(cmd, i + 1)) - 1)

\* the first flag of the line that has a value
FirstValued(cmd) ==
  CHOOSE i \in 1..Len(cmd) : HasValue(cmd, i) /\ \A j \in 1..(i - 1) : ~HasValue(cmd, j)

\* the line was parsed; when its first flagged value is made of lowercase hex
\* digits and hyphens, the candidate carries exactly that value; a line
\* without the flag gives no candidate
ExtractsTheValue ==
  psResult = "ok" /\ cmdLine # <<>> =>
    /\ ( /\ \E i \in 1..Len(cmdLine) : HasValue(cmdLine, i)
         /\ \A x \in 1..Len(ValueOf(cmdLine, FirstValued(cmdLine))) :
               IsLowerHexOrHyphen(ValueOf(cmdLine, FirstValued(cmdLine))[x]) )
        => /\ Len(candidates) = 1
           /\ candidates[1].csrfToken = ValueOf(cmdLine, FirstValued(cmdLine))
    /\ (\A i \in 1..Len(cmdLine) : ~IsFlag(cmdLine[i])) => candidates = <<>>
    /\ candidates # <<>> =>
          \E i \in 1..(Len(cmdLine) - 1) : IsFlag(cmdLine[i]) /\ IsSep(cmdLine[i + 1])

\* C11 as stated: the value after the flag is extracted exactly, a line without
\* the flag gives no candidate, and every candidate's token is made of
\* lowercase hex digits and hyphens only
C11_LowercaseTokensOnly ==
  /\ ExtractsTheValue
  /\ \A c \in 1..Len(candidates) : \A x \in 1..Len(candidates[c].csrfToken) :
        IsLowerHexOrHyphen(candidates[c].csrfToken[x])

\* C11, amended: the value after the flag is extracted exactly, a line without
\* the flag gives no candidate, and every candidate's token is a non-empty
\* string of hex digits of either case and hyphens
C11_HexTokensOfEitherCase ==
  /\ ExtractsTheValue
  /\ \A c \in 1..Len(candidates) :
        /\ candidates[c].csrfToken # <<>>
        /\ \A x \in 1..Len(candidates[c].csrfToken) :
              IsHexOrHyphen(candidates[c].csrfToken[x])

\* a line whose flagged value has a hyphen and an uppercase digit was parsed
C11_Witness ==
  /\ psResult = "ok"
  /\ cmdLine = <<"--csrf_token", "=", "-", "F">>
  /\ candidates = <<[pid |-> 40, csrfToken |-> <<"-", "F">>]>>

(* -------------------------------- C12 ---------------------------------- *)
\* the run ended with one of the failures of the discovery stages
DiscoveryFailed ==
  /\ pc = "failed"
  /\ failure \in {"CommandFailed", "ProcessNotFound", "NoCredentialFound",
                  "NoListeningPort", "NoRespondingEndpoint"}

\* zero endpoints or one; a fetch is issued only for the one endpoint; a run
\* that failed at a discovery stage has no endpoint and issued no fetch
EndpointOrFailure ==
  /\ Len(endpoint) <= 1
  /\ (endpoint # <<>> <=> fetchState # "none")
  /\ (endpoint # <<>> => \E k \in Successes : endpoint = EndpointOf(k))
  /\ (DiscoveryFailed => endpoint = <<>> /\ fetchState = "none")

\* C12: in every reachable state the run has produced no endpoint or exactly
\* one, a run that failed at a discovery stage has produced none and issued
\* no quota fetch, and an endpoint, once chosen, is never replaced
C12_OneEndpoint ==
  [](EndpointOrFailure) /\ [][endpoint # <<>> => endpoint' = endpoint]_vars

\* two probes succeeded, one endpoint was chosen, and the fetch then failed
C12_Witness ==
  /\ pc = "failed"
  /\ failure = "FetchFailed"
  /\ Len(endpoint) = 1
  /\ Cardinality(Successes) = 2

(* -------------------------------- C13 ---------------------------------- *)
\* the error is reported and the process has exited with status 1, at once;
\* a run that rendered the quota has not called process.exit
ExitStatus ==
  /\ exitCode \in {-1, 1}
  /\ (pc = "failed" <=> exitCode = 1)
  /\ (pc = "failed" <=> failure # "none")
  /\ (pc = "done" => fetchState = "resolved" /\ endpoint # <<>>)

\* C13: a run that ends in a terminal error has reported it and has exited
\* with a non-zero status, and a run that resolved, fetched and rendered
\* never calls exit with a non-zero status
C13_ExitStatus ==
  [](ExitStatus) /\ [][pc = "done" => exitCode' = -1 /\ pc' = "done"]_vars

\* the quota response could not be parsed: reported, exit status 1
C13_Witness ==
  /\ pc = "failed"
  /\ failure = "MalformedResponse"
  /\ fetchState = "rejected"
  /\ exitCode = 1

(* -------------------------------- C14 ---------------------------------- *)
\* the PortCandidate that candidate i gets for the k-th port of its scan
Discovered(i, k) ==
  [port |-> disc[i].ports[k],
   token |-> uniqueCandidates[i].csrfToken,
   pid |-> uniqueCandidates[i].pid]

\* C14: when the port scans are joined, every port found for a candidate is
\* in the flattened list with that candidate's token and pid, whatever the
\* scans of the other candidates gave, a candidate whose scan found nothing
\* contributes an empty result, and the stage fails with NoListeningPort
\* exactly when the scans of all candidates are empty
C14_CandidateIsolation ==
  [][ (pc = "discovering" /\ pc' # "discovering") =>
        /\ Len(pidPortResults') = Len(disc)
        /\ \A i \in 1..Len(disc) :
              /\ (disc[i].ports = <<>> => pidPortResults'[i] = <<>>)
              /\ \A k \in 1..Len(disc[i].ports) : Includes(allPorts', Discovered(i, k))
        /\ \A n \in 1..Len(allPorts') :
              \E i \in 1..Len(disc) : \E k \in 1..Len(disc[i].ports) :
                 allPorts'[n] = Discovered(i, k)
        /\ (pc' = "failed" <=> \A i \in 1..Len(disc) : disc[i].ports = <<>>)
        /\ (pc' = "failed" => failure' = "NoListeningPort")
        /\ (pc' # "failed" => pc' = "probing") ]_vars

\* the scan of the first candidate found nothing, the ports of the second
\* candidate are probed
C14_Witness ==
  /\ pc = "probing"
  /\ Len(pidPortResults) = 2
  /\ pidPortResults[1] = <<>>
  /\ pidPortResults[2] # <<>>
  /\ allPorts = pidPortResults[2]
  /\ Len(probes) = Len(allPorts)

(* -------------------------------- C15 ---------------------------------- *)
\* an event of one probe changes that probe only and does not end the stage
ProbeEventIsLocal ==
  \A k \in 1..Len(probes) :
     probes'[k] # probes[k] =>
        /\ \A j \in 1..Len(probes) : j # k => probes'[j] = probes[j]
        /\ pc' = pc
        /\ failure' = failure

\* the stage is left with every probe settled, a failed probe left a negative
\* result, and one success is enough for the run to be resolved
FailuresAbsorbed ==
  (pc # "probing" /\ probes # <<>>) =>
     /\ \A k \in 1..Len(probes) :
           /\ probes[k].settled
           /\ probes[k].first \in {"statusOther", "error", "timeout"}
                 => TestResult(probes[k]) = <<>>
     /\ Successes # {} => Resolved /\ endpoint # <<>> /\ failure # "NoRespondingEndpoint"

\* C15: a probe that fails (another status than 200, a request error, the
\* timeout) gives a negative result for its port only: its events change no
\* other probe and do not end the run, the stage waits for every sibling, and
\* when a probe of another port succeeds the run becomes resolved
C15_ProbeIsolation ==
  /\ [][ProbeEventIsLocal]_vars
  /\ []FailuresAbsorbed
  /\ (pc = "probing" /\ Successes # {}) ~> (Resolved /\ endpoint # <<>>)

\* three ports: one refused the connection, one timed out, one answered 200,
\* and the run is resolved to the third
C15_Witness ==
  /\ pc = "fetching"
  /\ \E a, b, c \in 1..Len(probes) :
       /\ probes[a].first = "error"
       /\ probes[b].first = "timeout"
       /\ probes[c].first = "status200"
       /\ Successes = {c}
       /\ endpoint = EndpointOf(c)

(* -------------------------------- C16 ---------------------------------- *)
\* candidate i reported port p
Reported(i, p) == \E n \in 1..Len(pidPortResults[i]) : pidPortResults[i][n].port = p

\* the first candidate, in the order of uniqueCandidates, that reported port p
FirstReporter(p) ==
  CHOOSE i \in 1..Len(pidPortResults) :
     Reported(i, p) /\ \A j \in 1..(i - 1) : ~Reported(j, p)

\* the ports that any candidate reported
ReportedPorts == { allPorts[n].port : n \in 1..Len(allPorts) }

\* C16: every reported port is probed by exactly one probe, which issues one
\* request, however many candidates reported it; the probe's token is the
\* token of the first candidate, in candidate order, that reported the port,
\* and so is the token of the endpoint
C16_OneProbePerPort ==
  probes # <<>> =>
    /\ Len(probes) = Cardinality(ReportedPorts)
    /\ \A p \in ReportedPorts :
          Cardinality({k \in 1..Len(probes) : probes[k].port = p}) = 1
    /\ \A k \in 1..Len(probes) :
          /\ probes[k].port \in ReportedPorts
          /\ probes[k].requests = 1
          /\ probes[k].token = uniqueCandidates[FirstReporter(probes[k].port)].csrfToken
    /\ \A e \in 1..Len(endpoint) :
          /\ endpoint[e].port \in ReportedPorts
          /\ endpoint[e].token = uniqueCandidates[FirstReporter(endpoint[e].port)].csrfToken

\* two candidates with different tokens reported one port; it was probed once,
\* with the token of the first of them, and the run resolved to it
C16_Witness ==
  /\ Len(endpoint) = 1
  /\ Len(pidPortResults) = 2
  /\ Reported(1, endpoint[1].port)
  /\ Reported(2, endpoint[1].port)
  /\ uniqueCandidates[1].csrfToken # uniqueCandidates[2].csrfToken
  /\ endpoint[1].token = uniqueCandidates[1].csrfToken
  /\ Len(allPorts) > Len(probes)

(* -------------------------------- C17 ---------------------------------- *)
\* a probe of this run, with the port and token of the endpoint, returned success
ProbedWithSuccess ==
  \E k \in 1..Len(probes) :
     /\ probes[k].settled
     /\ probes[k].verdict
     /\ probes[k].first = "status200"
     /\ endpoint = <<[port |-> probes[k].port, token |-> probes[k].token]>>

\* what has happened before the stage the run is in
StagesInOrder ==
  /\ probes # <<>> => /\ pc # "discovering"
                      /\ Len(pidPortResults) = Len(uniqueCandidates)
                      /\ uniqueCandidates # <<>>
  /\ fetchState # "none" => ProbedWithSuccess
  /\ pc = "done" => fetchState = "resolved"
  /\ failure = "TypeError" => fetchState = "resolved"

\* the steps that start a stage
StagesStartInOrder ==
  /\ (probes = <<>> /\ probes' # <<>>) =>
        pc = "discovering" /\ \A i \in 1..Len(disc) : disc[i].done
  /\ (fetchState = "none" /\ fetchState' # "none") =>
        pc = "probing" /\ Successes # {} /\ fetchState' = "pending"
  /\ (pc # "done" /\ pc' = "done") => pc = "fetching" /\ fetchState' = "resolved"

\* C17: no probe is issued before the port scan of every candidate has
\* completed, the quota fetch is issued only after a probe succeeded and only
\* to a port and token for which a probe of this run returned success, and
\* the renderer runs only after the fetch returned parsed data
C17_StageOrder ==
  [](StagesInOrder) /\ [][StagesStartInOrder]_vars

\* two candidates were scanned, a probe answered 200, the fetch went to its
\* port and token, and the quota was rendered
C17_Witness ==
  /\ pc = "done"
  /\ Len(uniqueCandidates) = 2
  /\ Len(probes) >= 2
  /\ ProbedWithSuccess
  /\ fetchState = "resolved"

(* -------------------------------- C18 ---------------------------------- *)
\* nothing was done twice so far
NothingTwice ==
  /\ psResult = "pending" => pc = "start"
  /\ \A i, j \in 1..Len(uniqueCandidates) :
        uniqueCandidates[i].pid = uniqueCandidates[j].pid => i = j
  /\ \A i \in 1..Len(disc) :
        /\ Len(disc[i].invoked) <= Len(commands(platform))
        /\ disc[i].invoked = SubSeq(commands(platform), 1, Len(disc[i].invoked))
        /\ Len(disc[i].outcomes) <= Len(disc[i].invoked)
  /\ \A k, j \in 1..Len(probes) :
        /\ probes[k].requests = 1
        /\ probes[k].port = probes[j].port => k = j

\* no step does again what a stage has done
NothingAgain ==
  /\ psResult # "pending" =>
        psResult' = psResult /\ psLines' = psLines /\ UNCHANGED locatorVars
  /\ pc \notin {"start", "discovering"} => disc' = disc /\ allPorts' = allPorts
  /\ probes # <<>> =>
        /\ uniquePorts' = uniquePorts
        /\ Len(probes') = Len(probes)
        /\ \A k \in 1..Len(probes) :
              probes'[k].port = probes[k].port /\ probes'[k].requests = probes[k].requests
  /\ fetchState # "none" =>
        /\ endpoint' = endpoint
        /\ fetchState' # "none"
        /\ fetchState # "pending" => fetchState' = fetchState
  /\ pc = "failed" => UNCHANGED vars

\* C18: the process listing is queried at most once, each socket tool is run
\* at most once for each candidate pid, each unique port gets one probe with
\* one request, the quota fetch is issued at most once, and after a stage
\* failed no operation of any stage is performed
C18_NoRetries ==
  [](NothingTwice) /\ [][NothingAgain]_vars

\* linux, three tools run once each for a candidate, in order, none of them
\* printing a line
C18_Witness ==
  /\ platform = "linux"
  /\ pc = "discovering"
  /\ \E i \in 1..Len(disc) :
       /\ disc[i].done
       /\ disc[i].invoked = <<"ss", "netstat", "lsof">>
       /\ disc[i].outcomes = <<"threw", "empty", "threw">>
       /\ disc[i].ports = <<>>

(* -------------------------------- C19 ---------------------------------- *)
\* the ports that the process pid itself has in listening state
OwnListeningPorts(pid) ==
  { l.port : l \in {x \in SocketLines : x.owner = pid /\ x.state = "LISTEN"} }

\* C19: the ports that getListeningPorts(pid) returns are ports that the
\* process pid itself has in listening state; a line of another process
\* gives no port to the result for pid
C19_OwnPortsOnly ==
  \A i \in 1..Len(disc) :
     disc[i].done =>
        \A k \in 1..Len(disc[i].ports) :
           disc[i].ports[k] \in OwnListeningPorts(uniqueCandidates[i].pid)

(* -------------------------------- C20 ---------------------------------- *)
\* the verdict of the probe of port p
Succeeded(p) ==
  \E k \in 1..Len(probes) : probes[k].port = p /\ probes[k].settled /\ probes[k].verdict

\* the first entry of the discovered PortCandidates whose port succeeded
FirstSucceeding ==
  CHOOSE n \in 1..Len(allPorts) :
     Succeeded(allPorts[n].port) /\ \A m \in 1..(n - 1) : ~Succeeded(allPorts[m].port)

\* the endpoint is a function of the discovered list and of the verdicts
EndpointFromVerdicts ==
  /\ endpoint # <<>> =>
        endpoint = <<[port |-> allPorts[FirstSucceeding].port,
                      token |-> allPorts[FirstSucceeding].token]>>
  /\ failure = "NoRespondingEndpoint" =>
        \A n \in 1..Len(allPorts) : ~Succeeded(allPorts[n].port)

\* the decision is taken when every probe has completed
DecidesAfterAllProbes ==
  (pc = "probing" /\ pc' # "probing") =>
     /\ \A k \in 1..Len(probes) : probes[k].settled
     /\ Len(settleOrder) = Len(probes)
     /\ \A k \in 1..Len(probes) : probes'[k].verdict = probes[k].verdict

\* C20: the port and token that main resolves to are determined by the list
\* of discovered PortCandidates and the verdict of each port alone, whatever
\* the order in which the probes completed: the first entry of the list
\* whose port succeeded; the decision is taken only when all probes completed
C20_Deterministic ==
  [](EndpointFromVerdicts) /\ [][DecidesAfterAllProbes]_vars

\* three probes completed in the reverse of the discovery order, the last two
\* of the list succeeded, and the run resolved to the second
C20_Witness ==
  /\ Len(probes) = 3
  /\ settleOrder = <<3, 2, 1>>
  /\ Successes = {2, 3}
  /\ endpoint = EndpointOf(2)
====
